---- MODULE Spec2Model ----
(***************************************************************************)
(* A model of models/VGG16StyleTransfer.py: the construction of the        *)
(* feature extractor (weight transplant and taps), the optimization loop   *)
(* (training) and the two drivers (inferOnVideo, inferOnImage).            *)
(*                                                                         *)
(* Tensors are held small: an image is a function from 1..NPix to a pixel  *)
(* value, an activation a function from positions to channel vectors.      *)
(* Floating-point values are integers here, and NaN is one value apart.    *)
(* Python containers are 0-based, TLA+ sequences 1-based: get_layer does    *)
(* the shift.                                                              *)
(***************************************************************************)
EXTENDS Integers, Sequences, FiniteSets, TLC

\* ------------------------------------------------------------------ bounds
NPix == 2          \* pixels of an image (300*300*3 in the program)
NChan == 2         \* channels of an activation
ActMod == 19       \* activations are kept modulo ActMod
MaxLayers == 17    \* the longest truncated stack tried
MaxEpochs == 2     \* the largest epoch count tried
MaxFrames == 3     \* the longest video tried
MaxSkip == 2       \* the largest stride tried
MaxVideoEpochs == 1 \* the largest epoch count tried per frame of a video

\* ------------------------------------------------------- program constants
SubStack0Len == 13 \* "if i >= 13": the layers of backbone sub-stack 0
NStyle == 6        \* range(1, 7): the number of style taps
ClipMin == 0
ClipMax == 255
InputRes == 300    \* the side of the extractor's input, and of the style thumbnail's source

VARIABLES
    pc,              \* the position of the program
    floatType,       \* __init__'s floatType argument
    SSD_backbone,    \* the two sub-stacks of the pretrained backbone
    VGG16_tilStage5, \* the layers of the truncated stack: weights, trainable
    i,               \* the loop index of __init__, the frame counter of inferOnVideo
    x,               \* self.x: the symbolic tensor, as the layers applied so far
    style_layers,    \* self.style_layers
    outputs,         \* the outputs of self.model (style_layers + content_layers)
    data,            \* the argument of a get_features call
    features,        \* the result of a get_features call
    style_image,     \* training's style_image
    content_image,   \* training's content_image
    optimizer,       \* the caller's optimizer instance: kind and step counter
    epochs,          \* the epoch count
    images,          \* training's list of snapshots
    style_targets,   \* training's style targets
    content_targets, \* training's content target
    generated_image, \* training's generated image
    n,               \* training's loop variable
    fs,              \* the image files: path -> image, or NoFile
    style_image_path,
    image_path,      \* inferOnImage's image_path
    video,           \* the frames of the video at video_path
    cap,             \* the frames cap.read() has returned
    loops,           \* the turns of inferOnVideo's loop taken
    number_of_frame,
    start_idx,
    end_idx,
    skip,
    resize,          \* the target resolution, << >> for None
    add_content_img,
    add_style_img,
    img,             \* the decoded frame (content_image_init in inferOnImage)
    imgs,            \* inferOnVideo's accumulated results
    runs,            \* the 0-based indices of the frames training was run on
    saved            \* what was written to out_path, << >> before

buildVars == <<pc, floatType, SSD_backbone, VGG16_tilStage5, i, x, style_layers,
               outputs, data, features>>

trainVars == <<style_image, content_image, optimizer, epochs, images,
               style_targets, content_targets, generated_image, n>>

driverVars == <<fs, style_image_path, image_path, video, cap, loops,
                number_of_frame, start_idx, end_idx, skip, resize, add_content_img,
                add_style_img, img, imgs, runs, saved>>

vars == <<buildVars, trainVars, driverVars>>

\* ------------------------------------------------------------------ helpers
Max2(a, b) == IF a >= b THEN a ELSE b
Min2(a, b) == IF a <= b THEN a ELSE b

\* range(a, b) as a sequence
Range(a, b) == [k \in 1..Max2(b - a, 0) |-> a + k - 1]

\* ------------------------------------------------------------------ images
Positions == 1..NPix

\* an image with every pixel v
Flat(v) == [p \in Positions |-> v]
\* an image whose pixels go from lo (first) to hi (last)
Ramp(lo, hi) == [p \in Positions |-> IF p = 1 THEN lo
                                     ELSE IF p = NPix THEN hi
                                     ELSE lo + ((hi - lo) * (p - 1)) \div (NPix - 1)]

ContentImages == {Ramp(0, 255), Flat(100), Ramp(30, 200)}
StyleImages == {Ramp(255, 0), Flat(255)}

\* --------------------------------------------------- construction (__init__)
\* get_layer(index=k) of a stack
get_layer(stack, k) == stack[k + 1]

get_weights(layer) == layer.weights

\* the shape of the parameters of layer k of the truncated stack
LayerShape(k) == k % 4

\* the backbone layer that target layer k reads (lines 65-68)
MapIndex(k) == IF k >= SubStack0Len
               THEN [seq |-> 1, layer |-> k - SubStack0Len]
               ELSE [seq |-> 0, layer |-> k]

\* a set_weights that takes any weights
ShapesUnchecked(layer, w) == TRUE

\* Keras' set_weights refuses weights of another shape
ShapesMatch(layer, w) == layer.weights.shape = w.shape

\* the transplant with the freeze forgotten
TransplantKeepsTrainable(layer, w) == [weights |-> w, trainable |-> layer.trainable]

\* lines 69-74: the layer after set_weights and trainable = False
Transplant(layer, w) == [weights |-> w, trainable |-> FALSE]

\* the loop running one layer further
DeepStopLate(len) == len - 1

\* the end of range(7, len(layers) - 2)
DeepStop(len) == len - 2

\* a freshly constructed layer of the truncated stack (own initialisation)
FreshLayer(k) == [weights |-> [id |-> <<2, k>>, shape |-> LayerShape(k)],
                  trainable |-> TRUE]

\* a backbone layer; the layer feeding target layer `bad` has another shape
BackboneLayer(s, j, bad) ==
    LET k == IF s = 0 THEN j ELSE j + SubStack0Len
    IN [weights |-> [id |-> <<s, j>>,
                     shape |-> IF k = bad THEN LayerShape(k) + 10 ELSE LayerShape(k)],
        trainable |-> TRUE]

Backbone(len, bad) ==
    << [j \in 1..SubStack0Len |-> BackboneLayer(0, j - 1, bad)],
       [j \in 1..Max2(len - SubStack0Len, 0) |-> BackboneLayer(1, j - 1, bad)] >>

\* -------------------------------------------------------------- get_features
\* the input of the network: data / 255.0, one channel vector per position
\* (activations are fixed-point numbers of denominator 255, kept modulo ActMod)
Normalize(d) == [p \in Positions |-> [c \in 1..NChan |-> d[p] % ActMod]]

\* one layer of the stack applied to an activation: a function of the layer's
\* weights and of its input (the layers themselves are VGG16's)
Layer(layer, t) ==
    [p \in Positions |-> [c \in 1..NChan |->
        (t[p][c] * (1 + layer.weights.shape) + c + layer.weights.id[2]
           + 3 * layer.weights.id[1]) % ActMod]]

RECURSIVE Forward(_, _, _)
\* the activation of a symbolic tensor (the layers `path` applied in order)
Forward(stack, path, t) ==
    IF path = << >> THEN t
    ELSE Forward(stack, Tail(path), Layer(get_layer(stack, Head(path)), t))

\* self.model(data): one activation per output
Model(stack, outs, t) ==
    [k \in 1..Len(outs) |-> Forward(stack, outs[k], t)]

RECURSIVE SumPos(_, _, _, _)
SumPos(t, c, d, m) == IF m = 0 THEN 0
                      ELSE t[m][c] * t[m][d] + SumPos(t, c, d, m - 1)

\* einsum('bijc,bijd->bcd', data, data) / (H * W)
gram_calc(t) == [c \in 1..NChan |-> [d \in 1..NChan |->
                    SumPos(t, c, d, NPix) \div NPix]]

\* outputs[:-1]
AllButLast(s) == SubSeq(s, 1, Len(s) - 1)

get_features(stack, outs, d) ==
    LET o == Model(stack, outs, Normalize(d))
    IN [style |-> [k \in 1..Len(AllButLast(o)) |-> gram_calc(AllButLast(o)[k])],
        content |-> o[Len(o)]]

\* ------------------------------------------------------------------ training
\* a float that is not a number
NaN == -1000000

IsNaN(v) == v = NaN
HasNaN(im) == \E p \in Positions : IsNaN(im[p])

\* float subtraction and division: NaN in, NaN out
Sub(a, b) == IF IsNaN(a) \/ IsNaN(b) THEN NaN ELSE a - b
Div(a, b) == IF IsNaN(a) \/ IsNaN(b) THEN NaN ELSE a \div b

\* the least and the greatest pixel of an image without NaN
MinOf(im) == CHOOSE v \in {im[p] : p \in Positions} :
                 \A p \in Positions : v <= im[p]
MaxOf(im) == CHOOSE v \in {im[p] : p \in Positions} :
                 \A p \in Positions : v >= im[p]

\* the values tape.gradient may return for the image: the network is VGG16's, so
\* any of these fields is taken at each step
GradientFields == {Flat(-360), Ramp(60, -360),
                   [p \in Positions |-> IF p = 1 THEN NaN ELSE 0]}

OptimizerKinds == {"sgd", "decay"}

\* the update a Keras optimizer makes of one element: plain SGD of rate 1, or SGD
\* whose rate decays with the optimizer's step counter, lr / (1 + iterations)
StepOf(opt, g) == IF opt.kind = "decay" THEN Div(g, 1 + opt.iterations) ELSE g

\* an optimizer that keeps no step counter
ApplyGradientsNoCount(opt, g, var) ==
    [opt |-> opt, var |-> [p \in Positions |-> Sub(var[p], StepOf(opt, g[p]))]]

\* optimizer.apply_gradients([(gradients, generated_image)]): the variable is
\* updated and the optimizer's step counter goes up by one
apply_gradients(opt, g, var) ==
    [opt |-> [opt EXCEPT !.iterations = @ + 1],
     var |-> [p \in Positions |-> Sub(var[p], StepOf(opt, g[p]))]]

\* the clamp left out
ClipNothing(im, lo, hi) == im

\* tf.clip_by_value: minimum(maximum(v, lo), hi); NaN stays NaN
clip_by_value(im, lo, hi) ==
    [p \in Positions |-> IF IsNaN(im[p]) THEN NaN ELSE Min2(Max2(im[p], lo), hi)]

\* what astype('uint8') may make of NaN (the cast is undefined)
NaNCastOutcomes == {0, 255}

\* array_to_img with scale=True on an image without NaN: x - min, / max when the
\* max is not 0, * 255, astype('uint8') (the float rounding of x / max * 255 is
\* taken as exact)
Scaled(im) ==
    LET mn == MinOf(im)
        y == [p \in Positions |-> im[p] - mn]
        mx == MaxOf(y)
    IN [p \in Positions |->
          (IF mx # 0 THEN (y[p] * 255) \div mx ELSE y[p] * 255) % 256]

\* tf.keras.preprocessing.image.array_to_img(tf.squeeze(t)): the images it may
\* return. With a NaN the min is NaN, so every element is NaN before the cast.
array_to_img(im) ==
    IF HasNaN(im) THEN {Flat(c) : c \in NaNCastOutcomes} ELSE {Scaled(im)}

\* lines 149 and 164: a new list holding the content snapshot
InitialImages(prev, first) == <<first>>

\* a list whose entries all are the one image being updated
AppendSnapshotAliased(list, s) == [k \in 1..(Len(list) + 1) |-> s]

\* lines 188-189: a copy of the generated image is converted and appended
AppendSnapshot(list, s) == Append(list, s)

\* for n in range(epochs)
LoopContinues(k, e) == k < e

\* ------------------------------------------------------ actions of __init__
NoOptimizer == [kind |-> "sgd", iterations |-> 0]

\* training's variables before any call
TrainIdle ==
    /\ style_image = << >>
    /\ content_image = << >>
    /\ optimizer = NoOptimizer
    /\ epochs = 0
    /\ images = << >>
    /\ style_targets = << >>
    /\ content_targets = << >>
    /\ generated_image = << >>
    /\ n = 0

NoFile == [pix |-> << >>, size |-> << >>]

\* the drivers' variables before any call
DriverIdle ==
    /\ fs = << >>
    /\ style_image_path = ""
    /\ image_path = ""
    /\ video = << >>
    /\ cap = 0
    /\ loops = 0
    /\ number_of_frame = 0
    /\ start_idx = 0
    /\ end_idx = 0
    /\ skip = 1
    /\ resize = << >>
    /\ add_content_img = FALSE
    /\ add_style_img = FALSE
    /\ img = NoFile
    /\ imgs = << >>
    /\ runs = << >>
    /\ saved = << >>

InitBuild ==
    /\ pc = "floatType"
    /\ floatType \in {32, 16, 8}
    /\ \E len \in (SubStack0Len - 1)..MaxLayers : \E bad \in (-1)..(len - 1) :
         /\ VGG16_tilStage5 = [k \in 1..len |-> FreshLayer(k - 1)]
         /\ SSD_backbone = Backbone(len, bad)
    /\ i = 0
    /\ x = << >>
    /\ style_layers = << >>
    /\ outputs = << >>
    /\ data = << >>
    /\ features = [style |-> << >>, content |-> << >>]
    /\ TrainIdle
    /\ DriverIdle

\* lines 31-37
CheckFloatType ==
    /\ pc = "floatType"
    /\ pc' = IF floatType \in {32, 16} THEN "transplant" ELSE "Exception"
    /\ i' = 0
    /\ UNCHANGED <<floatType, SSD_backbone, VGG16_tilStage5, x, style_layers,
                   outputs, data, features, trainVars, driverVars>>

\* lines 64-74: one turn of the transplant loop
TransplantLayer ==
    /\ pc = "transplant"
    /\ i < Len(VGG16_tilStage5)
    /\ LET m == MapIndex(i)
           w == get_weights(get_layer(get_layer(SSD_backbone, m.seq), m.layer))
       IN IF ShapesMatch(get_layer(VGG16_tilStage5, i), w)
          THEN /\ VGG16_tilStage5' =
                    [VGG16_tilStage5 EXCEPT
                        ![i + 1] = Transplant(get_layer(VGG16_tilStage5, i), w)]
               /\ i' = i + 1
               /\ pc' = pc
          ELSE /\ pc' = "ValueError"
               /\ UNCHANGED <<VGG16_tilStage5, i>>
    /\ UNCHANGED <<floatType, SSD_backbone, x, style_layers, outputs, data, features, trainVars, driverVars>>

\* lines 75-82: the loop is over, the backbone is dropped, layer 0 is applied
TransplantDone ==
    /\ pc = "transplant"
    /\ i = Len(VGG16_tilStage5)
    /\ SSD_backbone' = << >>
    /\ style_layers' = << >>
    /\ x' = <<0>>
    /\ i' = 1
    /\ pc' = "style_taps"
    /\ UNCHANGED <<floatType, VGG16_tilStage5, outputs, data, features, trainVars, driverVars>>

\* lines 84-87: one turn of the style-tap loop
StyleTap ==
    /\ pc = "style_taps"
    /\ i < NStyle + 1
    /\ style_layers' = Append(style_layers, x)
    /\ x' = Append(x, i)
    /\ i' = i + 1
    /\ UNCHANGED <<pc, floatType, SSD_backbone, VGG16_tilStage5, outputs, data, features, trainVars, driverVars>>

StyleTapsDone ==
    /\ pc = "style_taps"
    /\ i = NStyle + 1
    /\ pc' = "deep"
    /\ UNCHANGED <<floatType, SSD_backbone, VGG16_tilStage5, i, x, style_layers,
                   outputs, data, features, trainVars, driverVars>>

\* lines 89-90: one turn of the loop up to the content tap
DeepLayer ==
    /\ pc = "deep"
    /\ i < DeepStop(Len(VGG16_tilStage5))
    /\ x' = Append(x, i)
    /\ i' = i + 1
    /\ UNCHANGED <<pc, floatType, SSD_backbone, VGG16_tilStage5, style_layers,
                   outputs, data, features, trainVars, driverVars>>

\* lines 92-98: the content tap and the model
BuildModel ==
    /\ pc = "deep"
    /\ i >= DeepStop(Len(VGG16_tilStage5))
    /\ outputs' = style_layers \o <<x>>
    /\ pc' = "built"
    /\ UNCHANGED <<floatType, SSD_backbone, VGG16_tilStage5, i, x, style_layers,
                   data, features, trainVars, driverVars>>

\* a call of get_features on the built model (lines 100-115)
CallGetFeatures ==
    /\ pc = "built"
    /\ \E d \in ContentImages \cup StyleImages :
         /\ data' = d
         /\ features' = get_features(VGG16_tilStage5, outputs, d)
    /\ pc' = "featured"
    /\ UNCHANGED <<floatType, SSD_backbone, VGG16_tilStage5, i, x, style_layers,
                   outputs, trainVars, driverVars>>

NextBuild ==
    \/ CheckFloatType
    \/ TransplantLayer
    \/ TransplantDone
    \/ StyleTap
    \/ StyleTapsDone
    \/ DeepLayer
    \/ BuildModel
    \/ CallGetFeatures

SpecBuild == InitBuild /\ [][NextBuild]_vars

\* ------------------------------------------------- properties of __init__
Transplanted == pc \in {"style_taps", "deep", "built", "featured"}
Built == pc \in {"built", "featured"}
NumLayers == Len(VGG16_tilStage5)

\* the backbone layer the claim maps target layer k to
SourceOf(k) == IF k < 13 THEN <<0, k>> ELSE <<1, k - 13>>

\* C6: every target layer i the transplant has copied holds the weights of
\* backbone sub-stack 0 layer i when i < 13 and of sub-stack 1 layer i - 13 when
\* i >= 13, and once the transplant is complete every target layer is
\* non-trainable.
C6_TransplantMapping ==
    \A k \in 0..(NumLayers - 1) :
        ((pc = "transplant" /\ k < i) \/ Transplanted) =>
            /\ get_layer(VGG16_tilStage5, k).weights.id = SourceOf(k)
            /\ get_layer(VGG16_tilStage5, k).trainable = FALSE

C6_Witness ==
    /\ pc = "built"
    /\ NumLayers > 13
    /\ get_layer(VGG16_tilStage5, NumLayers - 1).weights.id = <<1, NumLayers - 14>>

\* the shape of the weights target layer k is about to receive differs from its own
MismatchAt(k) ==
    LET src == SourceOf(k)
    IN SSD_backbone[src[1] + 1][src[2] + 1].weights.shape # LayerShape(k)

C7_NoMismatchedWeights ==
    /\ (pc = "transplant" \/ Transplanted) =>
          \A k \in 0..(NumLayers - 1) :
              get_layer(VGG16_tilStage5, k).weights.shape = LayerShape(k)
    /\ pc = "ValueError" => outputs = << >> /\ features.style = << >>

\* C7: a target layer whose parameter shape differs from the shape of the source
\* layer it is mapped to makes construction fail at that layer: the failure is
\* final, no model is ever built and no layer ever holds weights of another shape.
C7_MismatchIsFatal ==
    /\ []C7_NoMismatchedWeights
    /\ [][(pc = "transplant" /\ i < NumLayers /\ MismatchAt(i))
            => (pc' = "ValueError" /\ UNCHANGED VGG16_tilStage5)]_vars
    /\ [][pc = "ValueError" => pc' = "ValueError"]_vars

C7_Witness ==
    /\ pc = "ValueError"
    /\ i >= 13
    /\ MismatchAt(i)
    /\ outputs = << >>

BuiltStack(len) ==
    [k \in 1..len |->
        Transplant(FreshLayer(k - 1),
                   get_weights(get_layer(get_layer(Backbone(len, -1), MapIndex(k - 1).seq),
                                         MapIndex(k - 1).layer)))]

BuiltOutputs(len) == [k \in 1..NStyle |-> Range(0, k)] \o <<Range(0, DeepStop(len))>>

\* the object after __init__, nothing called yet
Constructed ==
    /\ floatType = 32
    /\ SSD_backbone = << >>
    /\ VGG16_tilStage5 = BuiltStack(MaxLayers)
    /\ i = DeepStop(MaxLayers)
    /\ x = Range(0, DeepStop(MaxLayers))
    /\ style_layers = [k \in 1..NStyle |-> Range(0, k)]
    /\ outputs = BuiltOutputs(MaxLayers)
    /\ data = << >>
    /\ features = [style |-> << >>, content |-> << >>]

InitTrain ==
    /\ pc = "train_begin"
    /\ Constructed
    /\ style_image \in StyleImages
    /\ content_image \in ContentImages
    /\ optimizer \in [kind : OptimizerKinds, iterations : {0}]
    /\ epochs \in 0..MaxEpochs
    /\ images = << >>
    /\ style_targets = << >>
    /\ content_targets = << >>
    /\ generated_image = << >>
    /\ n = 0
    /\ DriverIdle

\* lines 149-164: the targets, the generated image and the first snapshot
TrainingBegin ==
    /\ pc = "train_begin"
    /\ style_targets' = get_features(VGG16_tilStage5, outputs, style_image).style
    /\ content_targets' = get_features(VGG16_tilStage5, outputs, content_image).content
    /\ generated_image' = content_image
    /\ \E s \in array_to_img(content_image) : images' = InitialImages(images, s)
    /\ n' = 0
    /\ pc' = "train_loop"
    /\ UNCHANGED <<floatType, SSD_backbone, VGG16_tilStage5, i, x, style_layers,
                   outputs, data, features, style_image, content_image, optimizer,
                   epochs, driverVars>>

\* lines 167-189: one iteration: gradient, optimizer step, clamp, snapshot
TrainingStep ==
    /\ pc = "train_loop"
    /\ LoopContinues(n, epochs)
    /\ \E gradients \in GradientFields :
         LET r == apply_gradients(optimizer, gradients, generated_image)
             clipped == clip_by_value(r.var, ClipMin, ClipMax)
         IN /\ optimizer' = r.opt
            /\ generated_image' = clipped
            /\ \E s \in array_to_img(clipped) : images' = AppendSnapshot(images, s)
    /\ n' = n + 1
    /\ UNCHANGED <<buildVars, style_image, content_image, epochs, style_targets,
                   content_targets, driverVars>>

\* line 190: return images
TrainingReturn ==
    /\ pc = "train_loop"
    /\ ~LoopContinues(n, epochs)
    /\ pc' = "train_return"
    /\ UNCHANGED <<floatType, SSD_backbone, VGG16_tilStage5, i, x, style_layers,
                   outputs, data, features, trainVars, driverVars>>

NextTrain ==
    \/ TrainingBegin
    \/ TrainingStep
    \/ TrainingReturn

SpecTrain == InitTrain /\ [][NextTrain]_vars

\* the state __init__ ends in is the state the runs start from
BuiltAsConstructed ==
    (pc = "built" /\ NumLayers = MaxLayers) =>
        /\ VGG16_tilStage5 = BuiltStack(MaxLayers)
        /\ outputs = BuiltOutputs(MaxLayers)
        /\ x = Range(0, DeepStop(MaxLayers))
        /\ style_layers = [k \in 1..NStyle |-> Range(0, k)]
        /\ i = DeepStop(MaxLayers)
        /\ SSD_backbone = << >>
        /\ floatType \in {32, 16}

\* ------------------------------------------------ properties of training
InRange(v) == 0 <= v /\ v <= 255
Training == pc \in {"train_loop", "train_return"}

\* C1 as claimed: a run of N epochs makes exactly N iterations and returns N+1
\* snapshots, the first of them equal to the input content image; with N = 0 no
\* optimizer step is applied.
C1_SnapshotsAsClaimed ==
    pc = "train_return" =>
        /\ n = epochs
        /\ optimizer.iterations = epochs
        /\ Len(images) = epochs + 1
        /\ images[1] = content_image
        /\ epochs = 0 => generated_image = content_image

\* the part of C1 that counts: N iterations, N optimizer steps, N+1 snapshots, the
\* first of them the conversion of the content image
C1_Counts ==
    pc = "train_return" =>
        /\ n = epochs
        /\ optimizer.iterations = epochs
        /\ Len(images) = epochs + 1
        /\ images[1] \in array_to_img(content_image)
        /\ epochs = 0 => generated_image = content_image

\* C2 as claimed: after every iteration every element of the generated image, and
\* of every snapshot an iteration appended, lies in [0, 255].
C2_AlwaysInRange ==
    (Training /\ n >= 1) =>
        /\ \A p \in Positions : InRange(generated_image[p])
        /\ \A k \in 2..Len(images) : \A p \in Positions : InRange(images[k][p])

\* C2 amended: the clamp runs after the optimizer step and before the snapshot, so
\* after every iteration every element of the generated image is NaN or lies in
\* [0, 255], the snapshot the iteration appended is the conversion of that clamped
\* image, and every element of every snapshot lies in [0, 255].
C2_ClampedUnlessNaN ==
    (Training /\ n >= 1) =>
        /\ \A p \in Positions :
              IsNaN(generated_image[p]) \/ InRange(generated_image[p])
        /\ Len(images) = n + 1
        /\ images[n + 1] \in array_to_img(generated_image)
        /\ \A k \in 2..Len(images) : \A p \in Positions : InRange(images[k][p])

C2_Witness ==
    /\ pc = "train_loop"
    /\ n = 1
    /\ content_image = Flat(100)
    /\ generated_image = Flat(255)

\* C10: in one run the targets are those computed from the style image and the
\* content image before the first iteration, and an iteration changes neither
\* them nor the two input images nor the weights nor a snapshot already appended.
C10_OnlyGeneratedImageMutated ==
    /\ [](Training =>
            /\ style_targets = get_features(VGG16_tilStage5, outputs, style_image).style
            /\ content_targets =
                  get_features(VGG16_tilStage5, outputs, content_image).content)
    /\ [][pc = "train_loop" =>
            /\ style_targets' = style_targets
            /\ content_targets' = content_targets
            /\ style_image' = style_image
            /\ content_image' = content_image
            /\ VGG16_tilStage5' = VGG16_tilStage5
            /\ Len(images') >= Len(images)
            /\ SubSeq(images', 1, Len(images)) = images]_vars

C10_Witness ==
    /\ pc = "train_loop"
    /\ n = 2
    /\ images[2] # images[3]
    /\ generated_image # content_image
    /\ images[1] \in array_to_img(content_image)

\* ------------------------------------------------------------- the drivers
ContentPaths == {"imgs/content.jpg", "a.jpg", "b.jpg"}
Paths == ContentPaths \cup {"style.jpg"}

\* the image files on disk; imgs/content.jpg is there or not
FileSystem(withDefault) ==
    [path \in Paths |->
        CASE path = "style.jpg" -> [pix |-> Ramp(255, 0), size |-> <<4, 4>>]
          [] path = "a.jpg" -> [pix |-> Flat(100), size |-> <<8, 6>>]
          [] path = "b.jpg" -> [pix |-> Ramp(30, 200), size |-> <<6, 6>>]
          [] OTHER -> IF withDefault
                      THEN [pix |-> Ramp(0, 255), size |-> <<6, 4>>]
                      ELSE NoFile]

\* frame k (0-based) of the video: every frame has its own pixels
FrameOf(k) == [pix |-> Ramp(10 * k, 250 - k), size |-> <<6, 4>>]

VideoOf(len) == [k \in 1..len |-> FrameOf(k - 1)]

Resizes == {<< >>, <<12, 12>>}

\* line 248: i <= start_idx
NotStarted(count, start) == count <= start

\* the stride counted from the 0-based index
SkippedByIndex(count, stride) == (count - 1) % stride # 0

\* line 252: i % skip != 0
Skipped(count, stride) == count % stride # 0

\* Python's round(a / b), to the even neighbour halfway
RoundDiv(a, b) ==
    LET q == a \div b
        r == a % b
    IN IF 2 * r > b THEN q + 1
       ELSE IF 2 * r < b THEN q
       ELSE IF q % 2 = 0 THEN q ELSE q + 1

\* int(round(orig_height / resize[0] * 0.8))
StyleResizeRatio(orig_height, rs) == RoundDiv(4 * orig_height, 5 * rs[1])

\* the composition divides by the style ratio when the style image is added
CompositeFails(rs, orig_height, addc, adds) ==
    adds /\ StyleResizeRatio(orig_height, rs) = 0

\* lines 265-316 and 367-418: the last snapshot resized, then the thumbnails pasted
Composite(result, rs, content_pil, style_pil, orig_height, addc, adds) ==
    LET cthumb == [of |-> content_pil.pix, size |-> <<rs[1] \div 3, rs[2] \div 3>>]
        ratio == StyleResizeRatio(orig_height, rs)
        sthumb == [of |-> style_pil,
                   size |-> <<InputRes \div ratio, InputRes \div ratio>>]
    IN [pix |-> result,
        size |-> rs,
        content_thumb |->
            IF addc THEN <<[of |-> cthumb.of, size |-> cthumb.size,
                            at |-> <<0, rs[2] - cthumb.size[2]>>]>>
            ELSE << >>,
        style_thumb |->
            IF adds THEN <<[of |-> sthumb.of, size |-> sthumb.size,
                            at |-> <<0, rs[2] - (IF addc THEN cthumb.size[2] ELSE 0)
                                          - sthumb.size[2]>>]>>
            ELSE << >>]

\* training has returned: its locals are gone, the caller keeps images[-1] alone
TrainingLocalsDropped ==
    /\ images' = << >>
    /\ style_targets' = << >>
    /\ content_targets' = << >>
    /\ generated_image' = << >>
    /\ n' = 0

\* images[-1]
Last(list) == list[Len(list)]

\* style_image_on_gif = array_to_img(tf.squeeze(style_image))
StyleOnGif == CHOOSE s \in array_to_img(style_image) : TRUE

InitVideo ==
    /\ pc = "video_begin"
    /\ Constructed
    /\ style_image = << >>
    /\ content_image = << >>
    /\ optimizer \in [kind : OptimizerKinds, iterations : {0}]
    /\ epochs \in 0..MaxVideoEpochs
    /\ images = << >>
    /\ style_targets = << >>
    /\ content_targets = << >>
    /\ generated_image = << >>
    /\ n = 0
    /\ fs = FileSystem(TRUE)
    /\ style_image_path = "style.jpg"
    /\ image_path = ""
    /\ \E len \in 0..MaxFrames : video = VideoOf(len)
    /\ cap = 0
    /\ loops = 0
    /\ number_of_frame = 0
    /\ start_idx \in 0..(MaxFrames - 1)
    /\ end_idx \in {-1} \cup 1..(MaxFrames + 1)
    /\ skip \in 1..MaxSkip
    /\ resize = << >>
    /\ add_content_img \in BOOLEAN
    /\ add_style_img \in BOOLEAN
    /\ img = NoFile
    /\ imgs = << >>
    /\ runs = << >>
    /\ saved = << >>

\* lines 229-241
VideoBegin ==
    /\ pc = "video_begin"
    /\ style_image' = fs[style_image_path].pix
    /\ imgs' = << >>
    /\ i' = 0
    /\ cap' = 0
    /\ loops' = 0
    /\ number_of_frame' = IF end_idx # -1 THEN end_idx ELSE Len(video)
    /\ pc' = "video_loop"
    /\ UNCHANGED <<floatType, SSD_backbone, VGG16_tilStage5, x, style_layers, outputs,
                   data, features, content_image, optimizer, epochs, images,
                   style_targets, content_targets, generated_image, n, fs,
                   style_image_path, image_path, video, start_idx, end_idx, skip,
                   resize, add_content_img, add_style_img, img, runs, saved>>

\* lines 243-261: one turn of the frame loop, up to the call of training
VideoNextFrame ==
    /\ pc = "video_loop"
    /\ loops < number_of_frame
    /\ loops' = loops + 1
    /\ IF cap >= Len(video)
       THEN \* ret is False: break
            /\ pc' = "video_save"
            /\ UNCHANGED <<cap, i, img, content_image, resize, runs>>
       ELSE /\ cap' = cap + 1
            /\ i' = i + 1
            /\ IF NotStarted(i + 1, start_idx)
               THEN /\ pc' = pc
                    /\ UNCHANGED <<img, content_image, resize, runs>>
               ELSE IF end_idx >= 0 /\ i + 1 > end_idx
               THEN /\ pc' = "video_save"
                    /\ UNCHANGED <<img, content_image, resize, runs>>
               ELSE IF Skipped(i + 1, skip)
               THEN /\ pc' = pc
                    /\ UNCHANGED <<img, content_image, resize, runs>>
               ELSE /\ img' = video[cap + 1]
                    /\ resize' = IF resize = << >> THEN video[cap + 1].size ELSE resize
                    /\ content_image' = video[cap + 1].pix
                    /\ runs' = Append(runs, cap)
                    /\ pc' = "train_begin"
    /\ UNCHANGED <<floatType, SSD_backbone, VGG16_tilStage5, x, style_layers, outputs,
                   data, features, style_image, optimizer, epochs, images,
                   style_targets, content_targets, generated_image, n, fs,
                   style_image_path, image_path, video, number_of_frame, start_idx,
                   end_idx, skip, add_content_img, add_style_img, imgs, saved>>

\* line 243: range(number_of_frame) is used up
VideoLoopEnd ==
    /\ pc = "video_loop"
    /\ loops >= number_of_frame
    /\ pc' = "video_save"
    /\ UNCHANGED <<floatType, SSD_backbone, VGG16_tilStage5, i, x, style_layers,
                   outputs, data, features, trainVars, driverVars>>

\* lines 263-318: training has returned; its last snapshot is composed and kept
VideoCollect ==
    /\ pc = "train_return"
    /\ IF CompositeFails(resize, img.size[1], add_content_img, add_style_img)
       THEN /\ pc' = "ZeroDivisionError"
            /\ UNCHANGED imgs
       ELSE /\ imgs' = Append(imgs, Composite(Last(images), resize, img, StyleOnGif,
                                              img.size[1], add_content_img,
                                              add_style_img))
            /\ pc' = "video_loop"
    /\ TrainingLocalsDropped
    /\ UNCHANGED <<floatType, SSD_backbone, VGG16_tilStage5, i, x, style_layers,
                   outputs, data, features, style_image, content_image, optimizer,
                   epochs, fs, style_image_path,
                   image_path, video, cap, loops, number_of_frame, start_idx, end_idx,
                   skip, resize, add_content_img, add_style_img, img, runs, saved>>

\* lines 320-322: imgs[0].save(..., append_images=imgs[1:]) and the rewrite at fps
VideoSave ==
    /\ pc = "video_save"
    /\ IF imgs = << >>
       THEN /\ pc' = "IndexError"
            /\ UNCHANGED saved
       ELSE /\ saved' = imgs
            /\ pc' = "video_done"
    /\ UNCHANGED <<floatType, SSD_backbone, VGG16_tilStage5, i, x, style_layers,
                   outputs, data, features, trainVars, fs, style_image_path,
                   image_path, video, cap, loops, number_of_frame, start_idx, end_idx,
                   skip, resize, add_content_img, add_style_img, img, imgs, runs>>

NextVideo ==
    \/ VideoBegin
    \/ VideoNextFrame
    \/ VideoLoopEnd
    \/ TrainingBegin
    \/ TrainingStep
    \/ TrainingReturn
    \/ VideoCollect
    \/ VideoSave

SpecVideo == InitVideo /\ [][NextVideo]_vars

\* ---------------------------------------------------------- inferOnImage
InitImage ==
    /\ pc = "image_begin"
    /\ Constructed
    /\ style_image = << >>
    /\ content_image = << >>
    /\ optimizer \in [kind : OptimizerKinds, iterations : {0}]
    /\ epochs \in 0..MaxEpochs
    /\ images = << >>
    /\ style_targets = << >>
    /\ content_targets = << >>
    /\ generated_image = << >>
    /\ n = 0
    /\ \E withDefault \in BOOLEAN : fs = FileSystem(withDefault)
    /\ style_image_path = "style.jpg"
    /\ image_path \in ContentPaths
    /\ video = << >>
    /\ cap = 0
    /\ loops = 0
    /\ number_of_frame = 0
    /\ start_idx = 0
    /\ end_idx = 0
    /\ skip = 1
    /\ resize \in Resizes
    /\ add_content_img \in BOOLEAN
    /\ add_style_img \in BOOLEAN
    /\ img = NoFile
    /\ imgs = << >>
    /\ runs = << >>
    /\ saved = << >>

\* line 350: the path Image.open is given
OpenedContentPath(path) == "imgs/content.jpg"

\* lines 350-363: the content image and the style image are loaded
ImageBegin ==
    /\ pc = "image_begin"
    /\ IF fs[OpenedContentPath(image_path)] = NoFile
       THEN /\ pc' = "FileNotFoundError"
            /\ UNCHANGED <<img, resize, content_image, style_image>>
       ELSE /\ img' = fs[OpenedContentPath(image_path)]
            /\ resize' = IF resize = << >> THEN img'.size ELSE resize
            /\ content_image' = img'.pix
            /\ style_image' = fs[style_image_path].pix
            /\ pc' = "train_begin"
    /\ UNCHANGED <<floatType, SSD_backbone, VGG16_tilStage5, i, x, style_layers,
                   outputs, data, features, optimizer, epochs, images, style_targets,
                   content_targets, generated_image, n, fs, style_image_path,
                   image_path, video, cap, loops, number_of_frame, start_idx, end_idx,
                   skip, add_content_img, add_style_img, imgs, runs, saved>>

\* lines 365-420: training has returned; its last snapshot is composed and saved
ImageFinish ==
    /\ pc = "train_return"
    /\ IF CompositeFails(resize, img.size[1], add_content_img, add_style_img)
       THEN /\ pc' = "ZeroDivisionError"
            /\ UNCHANGED saved
       ELSE /\ saved' = <<Composite(Last(images), resize, img, StyleOnGif,
                                    img.size[1], add_content_img, add_style_img)>>
            /\ pc' = "image_done"
    /\ TrainingLocalsDropped
    /\ UNCHANGED <<floatType, SSD_backbone, VGG16_tilStage5, i, x, style_layers,
                   outputs, data, features, style_image, content_image, optimizer,
                   epochs, fs, style_image_path,
                   image_path, video, cap, loops, number_of_frame, start_idx, end_idx,
                   skip, resize, add_content_img, add_style_img, img, imgs, runs>>

NextImage ==
    \/ ImageBegin
    \/ TrainingBegin
    \/ TrainingStep
    \/ TrainingReturn
    \/ ImageFinish

SpecImage == InitImage /\ [][NextImage]_vars

\* ------------------------------------------------- properties of the drivers
\* the frame indices the claim selects: start, start + skip, ... below end
StrideFromStart(start, end, stride) ==
    [m \in 1..((end - start + stride - 1) \div stride) |-> start + (m - 1) * stride]

\* C3 as claimed: with 0 <= start_idx < end_idx, skip >= 1 and a video of at least
\* end_idx frames, training is run on the frames of 0-based index start_idx,
\* start_idx + skip, ... below end_idx, in order, and on no other, with one result
\* kept per such frame.
C3_StrideFromStartIdx ==
    (pc = "video_save" /\ end_idx >= 1 /\ start_idx < end_idx /\ Len(video) >= end_idx)
        => /\ runs = StrideFromStart(start_idx, end_idx, skip)
           /\ Len(imgs) = Len(runs)

\* the 0-based indices the loop reaches and selects: the 1-based position k + 1
\* is above start_idx, a multiple of skip, and within the frames read
SelectedFrames ==
    {k \in 0..(Len(video) - 1) :
        /\ k + 1 > start_idx
        /\ k + 1 <= number_of_frame
        /\ (k + 1) % skip = 0}

\* C3 amended: when the frame loop is over, training has been run once on each
\* frame whose 1-based position is above start_idx, at most end_idx and a
\* multiple of skip (the stride is counted from the start of the video, not from
\* start_idx), on no other frame, in source order, with one result kept per such
\* frame.
C3_StrideFromVideoStart ==
    pc = "video_save" =>
        /\ {runs[j] : j \in 1..Len(runs)} = SelectedFrames
        /\ \A j \in 1..(Len(runs) - 1) : runs[j] < runs[j + 1]
        /\ Len(imgs) = Len(runs)
        /\ add_content_img =>
              \A j \in 1..Len(imgs) :
                  imgs[j].content_thumb[1].of = FrameOf(runs[j]).pix

C3_Witness ==
    /\ pc = "video_save"
    /\ start_idx = 0
    /\ end_idx = 3
    /\ skip = 2
    /\ Len(video) = 3
    /\ runs = <<1>>
    /\ Len(imgs) = 1

\* C4 as claimed: a stream that ends before the requested end index never makes
\* inferOnVideo raise; the frames accumulated so far are encoded, also when no
\* frame was selected.
C4_EarlyEndIsNoError ==
    (end_idx # -1 /\ Len(video) < end_idx) => pc # "IndexError"

\* C5 as claimed: the content image inferOnImage loads, runs training on and
\* takes the default output resolution from is the image at image_path.
C5_LoadsImagePath ==
    /\ (pc = "FileNotFoundError") => fs[image_path] = NoFile
    /\ (pc \in {"train_begin", "train_loop", "train_return", "image_done"}) =>
          /\ img = fs[image_path]
          /\ content_image = fs[image_path].pix

\* C9 as claimed: nothing a run writes is read by a later run: every run of
\* inferOnVideo starts from the optimizer as the caller supplied it.
C9_NothingCarriedOver ==
    pc = "train_begin" => optimizer.iterations = 0

\* C9 amended: every run starts with its own generated image (the frame's
\* pixels), its own one-entry snapshot list and targets computed from the style
\* image and that frame, on weights never written since construction; the
\* optimizer instance alone is carried from run to run, its step counter standing
\* at epochs times the number of runs before.
C9_OnlyOptimizerCarried ==
    /\ pc = "train_begin" => optimizer.iterations = (Len(runs) - 1) * epochs
    /\ (pc = "train_loop" /\ n = 0) =>
          /\ optimizer.iterations = (Len(runs) - 1) * epochs
          /\ content_image = FrameOf(Last(runs)).pix
          /\ generated_image = content_image
          /\ Len(images) = 1
          /\ images[1] \in array_to_img(content_image)
          /\ style_targets = get_features(VGG16_tilStage5, outputs, style_image).style
          /\ content_targets =
                get_features(VGG16_tilStage5, outputs, content_image).content
    /\ VGG16_tilStage5 = BuiltStack(MaxLayers)

C9_Witness ==
    /\ pc = "train_loop"
    /\ n = 0
    /\ Len(runs) = 2
    /\ epochs = 1
    /\ optimizer = [kind |-> "decay", iterations |-> 1]

====
